---- MODULE Spec2Model ----
(***************************************************************************)
(* btcd bootstrap layer: configuration resolution (config.go, loadConfig)  *)
(* and the service orchestration of the daemon (part_000: RunFunc and     *)
(* btcdMain).                                                              *)
(*                                                                         *)
(* Strings that the code takes apart (addresses, the profile port, paths)  *)
(* are sequences of one-character-like tokens; strings it only compares    *)
(* are TLA+ strings.  A command line and a config file are records that    *)
(* give, for every option, the sequence of values supplied for it (<<>>    *)
(* when the option is absent).                                             *)
(***************************************************************************)
EXTENDS Integers, Sequences, FiniteSets, TLC

VARIABLES
    \* ---- inputs of loadConfig and its result
    argv,        \* os.Args: option name -> values given on the command line
    confFile,    \* the file at the resolved config path: status and options
    loaded,      \* <<>> before loadConfig ran, <<result>> after
    \* ---- an address list and what normalizeAddresses returns for it
    addrList,    \* the list passed to normalizeAddresses
    normalized,  \* <<>> before the call, <<returned list>> after
    \* ---- the service: RunFunc (orchestrator), btcdMain (engine task),
    \* ---- the shutdown monitor goroutine, the server and the manager
    orchPc,      \* position of RunFunc
    outcome,     \* the values RunFunc returned, in order (at most one)
    s,           \* RunFunc's local s: "nil" or "server"
    engPc,       \* position of the goroutine running doneChan <- btcdMain(schan)
    engRet,      \* the value btcdMain returned (sent on doneChan)
    monPc,       \* position of the shutdown monitor goroutine
    srv,         \* the server: "none", "running", "stopped"
    stopChan,    \* smgr.StopChan() is ready to be received from
    db,          \* the block database: opened, Close calls, RollbackClose calls
    calls        \* calls made on the manager and the server handle, in order

vars == <<argv, confFile, loaded, addrList, normalized, orchPc, outcome, s, engPc, engRet, monPc,
          srv, stopChan, db, calls>>

cfgVars == <<argv, confFile, loaded>>
normVars == <<addrList, normalized>>
svcVars == <<orchPc, outcome, s, engPc, engRet, monPc, srv, stopChan, db, calls>>

(***************************************************************************)
(* Bounds of the model.                                                    *)
(***************************************************************************)
\* At most this many distinct options are given on the command line.
MaxCliOpts == 3
\* Addresses given to normalizeAddresses have at most this many characters,
\* and a list at most this many addresses.
MaxAddrLen == 3
MaxAddrs == 2

(***************************************************************************)
(* Program constants (config.go:31-50).                                    *)
(***************************************************************************)
Second == 1000                         \* time.Second, in milliseconds
defaultBanDuration == 24 * 3600 * Second
defaultDbType == "leveldb"
defaultBlockMinSize == 0
defaultBlockMaxSize == 750000
blockMaxSizeMin == 1000
MaxBlockPayload == 1000000             \* btcwire.MaxBlockPayload
blockMaxSizeMax == MaxBlockPayload - 1000
defaultBlockPrioritySize == 50000
defaultGenerate == FALSE
profilePortMin == 1024
profilePortMax == 65535

\* btcdHomeDir and the paths derived from it, as sequences of path segments.
btcdHomeDir == <<"home", "user", ".btcd-nmc">>
defaultConfigFile == btcdHomeDir \o <<"btcd.conf">>
defaultDataDir == btcdHomeDir \o <<"data">>
defaultLogDir == btcdHomeDir \o <<"logs">>
knownDbTypes == {"leveldb", "memdb"}

(***************************************************************************)
(* Small helpers on sequences.                                             *)
(***************************************************************************)
Range(q) == {q[i] : i \in 1..Len(q)}

Last(q) == q[Len(q)]

\* Index of the first / last occurrence of c in q, 0 when there is none
\* (Go's byteIndex / last return -1; positions here are 1-based).
IndexOf(q, c) ==
    IF c \in Range(q) THEN CHOOSE i \in 1..Len(q) : q[i] = c /\ \A j \in 1..(i-1) : q[j] # c
    ELSE 0

LastIndexOf(q, c) ==
    IF c \in Range(q) THEN CHOOSE i \in 1..Len(q) : q[i] = c /\ \A j \in (i+1)..Len(q) : q[j] # c
    ELSE 0

(***************************************************************************)
(* Network profiles (btcnet.Params as used by loadConfig).                 *)
(***************************************************************************)
Nets == {"main", "test", "reg", "sim"}

\* Params.Name
ParamsName(net) ==
    CASE net = "main" -> "mainnet"
      [] net = "test" -> "testnet3"
      [] net = "reg"  -> "regtest"
      [] net = "sim"  -> "simnet"

\* Params.DefaultPort and Params.RPCPort, one token each.
DefaultPort(net) == "P" \o net

RPCPort(net) == "R" \o net

netName(net) == IF net = "test" THEN "testnet" ELSE ParamsName(net)

(***************************************************************************)
(* Addresses: net.SplitHostPort, net.JoinHostPort and the normalizer.      *)
(***************************************************************************)
\* Whether net.SplitHostPort(hostport) returns an error.
SplitHostPortFails(hostport) ==
    LET n == Len(hostport)
        i == LastIndexOf(hostport, ":")
        end == IndexOf(hostport, "]")
        host == SubSeq(hostport, 1, i - 1)
        \* j, k: no "[" may follow position j, no "]" position k
        j == IF hostport[1] = "[" THEN 1 ELSE 0
        k == IF hostport[1] = "[" THEN end ELSE 0
    IN  IF i = 0 THEN TRUE                               \* missing port
        ELSE IF hostport[1] = "["
             THEN IF end = 0 THEN TRUE                   \* missing ']'
                  ELSE IF end = n THEN TRUE              \* missing port
                  ELSE IF end + 1 # i THEN TRUE          \* too many colons / missing port
                  ELSE \/ "[" \in Range(SubSeq(hostport, j + 1, n))
                       \/ "]" \in Range(SubSeq(hostport, k + 1, n))
             ELSE IF ":" \in Range(host) THEN TRUE       \* too many colons
                  ELSE \/ "[" \in Range(hostport)
                       \/ "]" \in Range(hostport)

JoinHostPort(host, port) ==
    IF ":" \in Range(host)
    THEN <<"[">> \o host \o <<"]", ":", port>>
    ELSE host \o <<":", port>>

normalizeAddress(addr, defaultPort) ==
    IF SplitHostPortFails(addr) THEN JoinHostPort(addr, defaultPort) ELSE addr

RECURSIVE removeDuplicateAddresses(_)
removeDuplicateAddresses(addrs) ==
    IF addrs = <<>> THEN <<>>
    ELSE LET front == removeDuplicateAddresses(SubSeq(addrs, 1, Len(addrs) - 1))
             val == Last(addrs)
         IN  IF val \in Range(front) THEN front ELSE Append(front, val)

normalizeAddresses(addrs, defaultPort) ==
    removeDuplicateAddresses(
        [i \in 1..Len(addrs) |-> normalizeAddress(addrs[i], defaultPort)])

(***************************************************************************)
(* Paths, as sequences of segments.                                        *)
(***************************************************************************)
\* filepath.Dir
Dir(path) == SubSeq(path, 1, Len(path) - 1)

\* filepath.Clean: "." segments dropped, ".." removes the segment before it.
RECURSIVE Clean(_)
Clean(path) ==
    IF path = <<>> THEN <<>>
    ELSE LET front == Clean(SubSeq(path, 1, Len(path) - 1))
             seg == Last(path)
         IN  IF seg = "." THEN front
             ELSE IF seg = ".." THEN SubSeq(front, 1, Len(front) - 1)
             ELSE Append(front, seg)

cleanAndExpandPath(path) ==
    IF path # <<>> /\ path[1] = "~"
    THEN Clean(Dir(btcdHomeDir) \o SubSeq(path, 2, Len(path)))
    ELSE Clean(path)

(***************************************************************************)
(* strconv.Atoi on a sequence of characters: <<>> on error, <<n>> else.    *)
(***************************************************************************)
Digits == {"0", "1", "2", "3", "4", "5", "6", "7", "8", "9"}

DigitVal(c) ==
    CASE c = "0" -> 0 [] c = "1" -> 1 [] c = "2" -> 2 [] c = "3" -> 3
      [] c = "4" -> 4 [] c = "5" -> 5 [] c = "6" -> 6 [] c = "7" -> 7
      [] c = "8" -> 8 [] c = "9" -> 9

RECURSIVE DecimalValue(_)
DecimalValue(str) ==
    IF str = <<>> THEN 0
    ELSE 10 * DecimalValue(SubSeq(str, 1, Len(str) - 1)) + DigitVal(Last(str))

Atoi(str) ==
    IF str = <<>> \/ ~(Range(str) \subseteq Digits) THEN <<>>
    ELSE <<DecimalValue(str)>>

(***************************************************************************)
(* btcutil.DecodeAddress and Address.IsForNet, as loadConfig uses them:    *)
(* an address string either does not decode, or decodes to an address of   *)
(* one network.                                                            *)
(***************************************************************************)
AddrNet == [addrMain |-> "main", keyMain |-> "main", addrTest |-> "test",
            addrReg |-> "reg", addrSim |-> "sim"]

DecodeFails(strAddr) == strAddr \notin DOMAIN AddrNet

IsForNet(strAddr, net) == AddrNet[strAddr] = net

minUint32(a, b) == IF a < b THEN a ELSE b

validDbType(dbType) == dbType \in knownDbTypes

(***************************************************************************)
(* Dial and lookup strategies (the function values bound by loadConfig).   *)
(***************************************************************************)
NetDial == [kind |-> "net.Dial", addr |-> "", user |-> "", pass |-> ""]

ProxyDial(addr, user, pass) ==
    [kind |-> "socks.Dial", addr |-> addr, user |-> user, pass |-> pass]

NetLookupIP == [kind |-> "net.LookupIP", addr |-> "", user |-> "", pass |-> ""]

TorLookup(proxy) == [kind |-> "torLookupIP", addr |-> proxy, user |-> "", pass |-> ""]

NilFunc == [kind |-> "nil", addr |-> "", user |-> "", pass |-> ""]

TorDisabled == [kind |-> "tor has been disabled", addr |-> "", user |-> "", pass |-> ""]

(***************************************************************************)
(* The default config (loadConfig's cfg literal); zero values elsewhere.   *)
(***************************************************************************)
DefaultConfig ==
    [ConfigFile |-> defaultConfigFile, DataDir |-> defaultDataDir,
     LogDir |-> defaultLogDir, DbType |-> defaultDbType,
     BanDuration |-> defaultBanDuration,
     BlockMinSize |-> defaultBlockMinSize, BlockMaxSize |-> defaultBlockMaxSize,
     BlockPrioritySize |-> defaultBlockPrioritySize, Generate |-> defaultGenerate,
     TestNet3 |-> FALSE, RegressionTest |-> FALSE, SimNet |-> FALSE,
     AddPeers |-> <<>>, ConnectPeers |-> <<>>, Listeners |-> <<>>,
     DisableListen |-> FALSE, DisableDNSSeed |-> FALSE, DisableRPC |-> FALSE,
     Proxy |-> "", ProxyUser |-> "", ProxyPass |-> "",
     OnionProxy |-> "", OnionProxyUser |-> "", OnionProxyPass |-> "",
     NoOnion |-> FALSE, Profile |-> <<>>,
     RPCUser |-> "", RPCPass |-> "", RPCListeners |-> <<>>,
     MiningAddrs |-> <<>>, GetWorkKeys |-> <<>>, MiningAddrsS |-> <<>>,
     ActiveNetParams |-> "nil",
     Dial |-> NilFunc, Lookup |-> NilFunc, Oniondial |-> NilFunc,
     Onionlookup |-> NilFunc]

\* Options that hold a list: every value given is added to the list.
ListOptions == {"AddPeers", "ConnectPeers", "Listeners", "RPCListeners",
                "MiningAddrs", "GetWorkKeys"}

\* flags.Parser.Parse / IniParser.ParseFile: the values a source gives are
\* written into cfg; options the source does not give keep their value.
Parse(cfg, source) ==
    [f \in DOMAIN cfg |->
        IF f \in DOMAIN source /\ Len(source[f]) > 0
        THEN IF f \in ListOptions THEN cfg[f] \o source[f] ELSE Last(source[f])
        ELSE cfg[f]]

(***************************************************************************)
(* loadConfig, stage by stage.                                             *)
(***************************************************************************)
\* What loadConfig returns: (nil, nil, err) or (&cfg, remainingArgs, nil).
\* warned records the deferred log.Warnf of a missing config file.
Failure(err) == [err |-> err, cfg |-> <<>>, warned |-> FALSE]

Success(cfg, configFileError) == [err |-> "nil", cfg |-> <<cfg>>, warned |-> configFileError]

\* config.go:257-258: whether the config file is read at all.
ReadsConfigFile(preCfg) ==
    ~(preCfg.RegressionTest \/ preCfg.SimNet) \/ preCfg.ConfigFile # defaultConfigFile

\* config.go:272-275
DropRegressionPeers(preCfg, cfg) ==
    IF preCfg.RegressionTest /\ Len(cfg.AddPeers) > 0
    THEN [cfg EXCEPT !.AddPeers = <<>>]
    ELSE cfg

\* config.go:254-284: defaults, then the file, then the command line.
MergeSources(args, file) ==
    LET preCfg == Parse(DefaultConfig, args)
        fromFile == IF ReadsConfigFile(preCfg) /\ file.status = "ok"
                    THEN Parse(DefaultConfig, file.opts)
                    ELSE DefaultConfig
    IN  Parse(DropRegressionPeers(preCfg, fromFile), args)

\* A count that forgets the simnet flag.
numNetsWithoutSimNet(cfg) ==
    (IF cfg.TestNet3 THEN 1 ELSE 0) + (IF cfg.RegressionTest THEN 1 ELSE 0)

\* config.go:288-306
numNets(cfg) ==
    (IF cfg.TestNet3 THEN 1 ELSE 0) + (IF cfg.RegressionTest THEN 1 ELSE 0)
        + (IF cfg.SimNet THEN 1 ELSE 0)

SelectNetwork(cfg) ==
    LET c1 == [cfg EXCEPT !.ActiveNetParams = "main"]
        c2 == IF c1.TestNet3 THEN [c1 EXCEPT !.ActiveNetParams = "test"] ELSE c1
        c3 == IF c2.RegressionTest THEN [c2 EXCEPT !.ActiveNetParams = "reg"] ELSE c2
    IN  IF c3.SimNet
        THEN [c3 EXCEPT !.ActiveNetParams = "sim", !.DisableDNSSeed = TRUE]
        ELSE c3

\* config.go:322-328
NamespaceDirs(cfg) ==
    [cfg EXCEPT
        !.DataDir = Append(cleanAndExpandPath(cfg.DataDir), netName(cfg.ActiveNetParams)),
        !.LogDir = Append(cleanAndExpandPath(cfg.LogDir), netName(cfg.ActiveNetParams))]

\* config.go:359-368
BadProfilePort(cfg) ==
    /\ cfg.Profile # <<>>
    /\ LET profilePort == Atoi(cfg.Profile)
       IN  \/ profilePort = <<>>
           \/ profilePort[1] < profilePortMin
           \/ profilePort[1] > profilePortMax

\* config.go:389-426
ListenDefaults(cfg) ==
    LET net == cfg.ActiveNetParams
        c1 == IF (cfg.Proxy # "" \/ Len(cfg.ConnectPeers) > 0) /\ Len(cfg.Listeners) = 0
              THEN [cfg EXCEPT !.DisableListen = TRUE] ELSE cfg
        c2 == IF Len(c1.ConnectPeers) > 0 THEN [c1 EXCEPT !.DisableDNSSeed = TRUE] ELSE c1
        c3 == IF Len(c2.Listeners) = 0
              THEN [c2 EXCEPT !.Listeners = <<JoinHostPort(<<>>, DefaultPort(net))>>]
              ELSE c2
        c4 == IF c3.RPCUser = "" \/ c3.RPCPass = ""
              THEN [c3 EXCEPT !.DisableRPC = TRUE] ELSE c3
    IN  IF ~c4.DisableRPC /\ Len(c4.RPCListeners) = 0
        THEN [c4 EXCEPT !.RPCListeners = <<JoinHostPort(<<"127.0.0.1">>, RPCPort(net))>>]
        ELSE c4

\* config.go:429-430
BadBlockMaxSize(cfg) ==
    cfg.BlockMaxSize < blockMaxSizeMin \/ cfg.BlockMaxSize > blockMaxSizeMax

\* config.go:442-443
ClampBlockSizes(cfg) ==
    [cfg EXCEPT !.BlockPrioritySize = minUint32(cfg.BlockPrioritySize, cfg.BlockMaxSize),
                !.BlockMinSize = minUint32(cfg.BlockMinSize, cfg.BlockMaxSize)]

\* The loops of config.go:448-466 and 469-486: the error of the first
\* address that fails to decode or is on the wrong network, "nil" if none.
RECURSIVE AddressError(_, _, _)
AddressError(strAddrs, net, what) ==
    IF strAddrs = <<>> THEN "nil"
    ELSE IF DecodeFails(Head(strAddrs)) THEN what \o " failed to decode"
    ELSE IF ~IsForNet(Head(strAddrs), net) THEN what \o " is on the wrong network"
    ELSE AddressError(Tail(strAddrs), net, what)

\* config.go:446-486: MiningAddrsS collects the getwork keys, then the
\* mining addresses.
ParseMiningAddrs(cfg) ==
    [cfg EXCEPT !.MiningAddrsS = cfg.GetWorkKeys \o cfg.MiningAddrs]

\* config.go:490
MissingMiningAddrs(cfg) == cfg.Generate /\ Len(cfg.MiningAddrsS) = 0

\* config.go:501-514
NormalizeLists(cfg) ==
    LET net == cfg.ActiveNetParams
    IN  [cfg EXCEPT
            !.Listeners = normalizeAddresses(cfg.Listeners, DefaultPort(net)),
            !.RPCListeners = normalizeAddresses(cfg.RPCListeners, RPCPort(net)),
            !.AddPeers = normalizeAddresses(cfg.AddPeers, DefaultPort(net)),
            !.ConnectPeers = normalizeAddresses(cfg.ConnectPeers, DefaultPort(net))]

\* config.go:522-536
ClearStrategies(cfg) ==
    LET c1 == [cfg EXCEPT !.Dial = NetDial, !.Lookup = NetLookupIP]
    IN  IF c1.Proxy # ""
        THEN LET c2 == [c1 EXCEPT !.Dial = ProxyDial(c1.Proxy, c1.ProxyUser, c1.ProxyPass)]
             IN  IF ~c2.NoOnion THEN [c2 EXCEPT !.Lookup = TorLookup(c2.Proxy)] ELSE c2
        ELSE c1

\* The --noonion override applied before, not after, the onion proxy.
OnionStrategiesProxyLast(cfg) ==
    LET c1 == IF cfg.NoOnion
              THEN [cfg EXCEPT !.Oniondial = TorDisabled, !.Onionlookup = TorDisabled]
              ELSE [cfg EXCEPT !.Oniondial = cfg.Dial, !.Onionlookup = cfg.Lookup]
    IN  IF c1.OnionProxy # ""
        THEN [c1 EXCEPT
                 !.Oniondial = ProxyDial(c1.OnionProxy, c1.OnionProxyUser,
                                         c1.OnionProxyPass),
                 !.Onionlookup = TorLookup(c1.OnionProxy)]
        ELSE c1

\* config.go:546-572
OnionStrategies(cfg) ==
    LET c1 == IF cfg.OnionProxy # ""
              THEN [cfg EXCEPT
                       !.Oniondial = ProxyDial(cfg.OnionProxy, cfg.OnionProxyUser,
                                               cfg.OnionProxyPass),
                       !.Onionlookup = TorLookup(cfg.OnionProxy)]
              ELSE [cfg EXCEPT !.Oniondial = cfg.Dial, !.Onionlookup = cfg.Lookup]
    IN  IF c1.NoOnion
        THEN [c1 EXCEPT !.Oniondial = TorDisabled, !.Onionlookup = TorDisabled]
        ELSE c1

\* config.go:445-581, after the block size check.
FinishConfig(cfg, configFileError) ==
    LET net == cfg.ActiveNetParams
        clamped == ClampBlockSizes(cfg)
        keyErr == AddressError(clamped.GetWorkKeys, net, "getworkkey")
        addrErr == AddressError(clamped.MiningAddrs, net, "mining address")
        mining == ParseMiningAddrs(clamped)
    IN  IF keyErr # "nil" THEN Failure(keyErr)
        ELSE IF addrErr # "nil" THEN Failure(addrErr)
        ELSE IF MissingMiningAddrs(mining) THEN Failure("no mining addresses")
        ELSE Success(OnionStrategies(ClearStrategies(NormalizeLists(mining))),
                     configFileError)

\* config.go:286-439
ValidateConfig(merged, configFileError) ==
    LET selected == SelectNetwork(merged)
        cfg == NamespaceDirs(selected)
        listening == ListenDefaults(cfg)
    IN  IF numNets(merged) > 1 THEN Failure("multiple networks")
        ELSE IF ~validDbType(cfg.DbType) THEN Failure("invalid database type")
        ELSE IF BadProfilePort(cfg) THEN Failure("profile port out of range")
        ELSE IF cfg.BanDuration < Second THEN Failure("banduration too short")
        ELSE IF Len(cfg.AddPeers) > 0 /\ Len(cfg.ConnectPeers) > 0
             THEN Failure("addpeer and connect mixed")
        ELSE IF BadBlockMaxSize(listening) THEN Failure("blockmaxsize out of range")
        ELSE FinishConfig(listening, configFileError)

\* config.go:183-582
loadConfig(args, file) ==
    LET preCfg == Parse(DefaultConfig, args)
        reads == ReadsConfigFile(preCfg)
    IN  IF reads /\ file.status = "bad" THEN Failure("config file parse error")
        ELSE ValidateConfig(MergeSources(args, file), reads /\ file.status = "missing")

(***************************************************************************)
(* The inputs of loadConfig: the command line and the config file.         *)
(***************************************************************************)
altConfigFile == <<"etc", "btcd.conf">>

CliOptions == {"TestNet3", "RegressionTest", "SimNet", "ConfigFile", "AddPeers",
               "ConnectPeers", "Listeners", "Proxy", "OnionProxy", "NoOnion",
               "Generate", "MiningAddrs", "GetWorkKeys", "DbType", "Profile",
               "BanDuration", "BlockMaxSize", "RPCUser", "RPCPass", "DataDir"}

\* The values an option is given on the command line.
CliValues(o) ==
    CASE o \in {"TestNet3", "RegressionTest", "SimNet", "NoOnion", "Generate"} -> {<<TRUE>>}
      [] o = "ConfigFile" -> {<<altConfigFile>>}
      [] o = "AddPeers" -> {<< <<"c">> >>}
      [] o = "ConnectPeers" -> {<< <<"d", ":", "9">> >>}
      [] o = "Listeners" -> {<< <<"l">>, <<"l", ":", "Pmain">>, <<"l">> >>}
      [] o = "Proxy" -> {<<"proxyC">>}
      [] o = "OnionProxy" -> {<<"onionC">>}
      [] o = "MiningAddrs" -> {<<"addrMain">>, <<"garbage">>}
      [] o = "GetWorkKeys" -> {<<"keyMain">>}
      [] o = "DbType" -> {<<"bogus">>}
      [] o = "Profile" -> {<< <<"6", "0", "6", "0">> >>, << <<"8", "0">> >>}
      [] o = "BanDuration" -> {<<500>>}
      [] o = "BlockMaxSize" -> {<<2000>>, <<999>>}
      [] o = "RPCUser" -> {<<"user">>}
      [] o = "RPCPass" -> {<<"pass">>}
      [] o = "DataDir" -> {<< <<"~", ".", "d">> >>}

NoArgs == [o \in CliOptions |-> <<>>]

Given(source) == {o \in DOMAIN source : Len(source[o]) > 0}

\* The config files: absent, unparsable, or setting some of four options.
FileOptions ==
    [TestNet3 : {<<>>, <<TRUE>>}, RegressionTest : {<<>>, <<TRUE>>},
     SimNet : {<<>>, <<TRUE>>},
     AddPeers : {<<>>, << <<"f">> >>}, Proxy : {<<>>, <<"proxyF">>}]

NoFileOptions == [TestNet3 |-> <<>>, RegressionTest |-> <<>>, SimNet |-> <<>>,
                  AddPeers |-> <<>>, Proxy |-> <<>>]

ConfFiles ==
    {[status |-> "missing", opts |-> NoFileOptions],
     [status |-> "bad", opts |-> NoFileOptions]}
        \cup {[status |-> "ok", opts |-> f] : f \in FileOptions}

(***************************************************************************)
(* The service at rest (before RunFunc is entered).                        *)
(***************************************************************************)
ServiceIdle ==
    /\ orchPc = "idle"
    /\ outcome = <<>>
    /\ s = "nil"
    /\ engPc = "idle"
    /\ engRet = "none"
    /\ monPc = "idle"
    /\ srv = "none"
    /\ stopChan = "idle"
    /\ db = [open |-> FALSE, closes |-> 0, rollbackCloses |-> 0]
    /\ calls = <<>>

(***************************************************************************)
(* ConfigSpec: loadConfig applied to every bounded command line and file.  *)
(***************************************************************************)
\* normalizeAddresses has not been given a list.
NoAddresses == addrList = <<>> /\ normalized = <<>>

ConfigInit ==
    /\ argv = NoArgs
    /\ confFile \in ConfFiles
    /\ loaded = <<>>
    /\ NoAddresses
    /\ ServiceIdle

\* The operator types one more option on the command line.
GiveOption ==
    /\ loaded = <<>>
    /\ Cardinality(Given(argv)) < MaxCliOpts
    /\ \E o \in CliOptions \ Given(argv) : \E v \in CliValues(o) :
          argv' = [argv EXCEPT ![o] = v]
    /\ UNCHANGED <<confFile, loaded, normVars>>
    /\ UNCHANGED svcVars

\* tcfg, _, err := loadConfig()
LoadConfig ==
    /\ loaded = <<>>
    /\ loaded' = <<loadConfig(argv, confFile)>>
    /\ UNCHANGED <<argv, confFile, normVars>>
    /\ UNCHANGED svcVars

ConfigNext == GiveOption \/ LoadConfig

ConfigSpec == ConfigInit /\ [][ConfigNext]_vars

(***************************************************************************)
(* The service: RunFunc, the goroutine running btcdMain, the shutdown      *)
(* monitor goroutine, the server and the service manager.  Channels are    *)
(* unbuffered: a send and its receive are one step of both goroutines.     *)
(*                                                                         *)
(* orchPc: idle, select1, dropPrivileges, setStarted, select2, callStop,   *)
(*         waitDone, returned                                              *)
(* engPc:  idle, loadConfig, loadBlockDB, newServer, start, sendServer,    *)
(*         spawnMonitor, waitShutdown, rollbackClose, return, sendDone,    *)
(*         done                                                            *)
(* monPc:  idle, waitForShutdown, sendShutdown, done                       *)
(* srv:    none, running, shutdown (went down on its own), stopped (Stop)  *)
(* stopChan: idle, ready (the manager asked to stop), taken                *)
(***************************************************************************)
\* The command lines and the config file the service is run with.
ServiceArgs ==
    {NoArgs,
     [NoArgs EXCEPT !.SimNet = <<TRUE>>, !.Generate = <<TRUE>>,
                    !.MiningAddrs = <<"addrSim">>],
     [NoArgs EXCEPT !.TestNet3 = <<TRUE>>, !.RegressionTest = <<TRUE>>],
     [NoArgs EXCEPT !.DbType = <<"bogus">>]}

ServiceFile == [status |-> "missing", opts |-> NoFileOptions]

\* loadConfig() on each of them.
ServiceConfig == [args \in ServiceArgs |-> loadConfig(args, ServiceFile)]

Call(name, result) == <<name, result>>

\* The deferred db.Close() of part_000:44 runs when btcdMain returns after
\* the database was opened.
DeferredClose(d) == IF d.open THEN [d EXCEPT !.closes = @ + 1] ELSE d

\* part_000:99-103: make the channels, start the engine task.
OrchStart ==
    /\ orchPc = "idle"
    /\ orchPc' = "select1"
    /\ engPc' = "loadConfig"
    /\ UNCHANGED <<outcome, s, engRet, monPc, srv, stopChan, db, calls>>
    /\ UNCHANGED <<cfgVars, normVars>>

\* part_000:28-31
EngLoadConfig ==
    /\ engPc = "loadConfig"
    /\ LET r == ServiceConfig[argv]
       IN  /\ loaded' = <<r>>
           /\ IF r.err # "nil"
              THEN engRet' = r.err /\ engPc' = "sendDone"
              ELSE engRet' = engRet /\ engPc' = "loadBlockDB"
    /\ UNCHANGED <<argv, confFile, normVars>>
    /\ UNCHANGED <<orchPc, outcome, s, monPc, srv, stopChan, db, calls>>

\* part_000:39-44
EngLoadBlockDB ==
    /\ engPc = "loadBlockDB"
    /\ \/ /\ db' = [db EXCEPT !.open = TRUE]
          /\ engPc' = "newServer"
          /\ UNCHANGED engRet
       \/ /\ engRet' = "block database error"
          /\ engPc' = "sendDone"
          /\ UNCHANGED db
    /\ UNCHANGED <<orchPc, outcome, s, monPc, srv, stopChan, calls>>
    /\ UNCHANGED <<cfgVars, normVars>>

\* part_000:49-55
EngNewServer ==
    /\ engPc = "newServer"
    /\ \/ /\ engPc' = "start"
          /\ UNCHANGED <<engRet, db>>
       \/ /\ engRet' = "server error"
          /\ db' = DeferredClose(db)
          /\ engPc' = "sendDone"
    /\ UNCHANGED <<orchPc, outcome, s, monPc, srv, stopChan, calls>>
    /\ UNCHANGED <<cfgVars, normVars>>

\* part_000:57
EngStart ==
    /\ engPc = "start"
    /\ srv' = "running"
    /\ engPc' = "sendServer"
    /\ UNCHANGED <<orchPc, outcome, s, engRet, monPc, stopChan, db, calls>>
    /\ UNCHANGED <<cfgVars, normVars>>

\* part_000:59 with part_000:111: serverChan <- server, s = <-schan.
HandOverServer ==
    /\ engPc = "sendServer"
    /\ orchPc = "select1"
    /\ s' = "server"
    /\ engPc' = "spawnMonitor"
    /\ orchPc' = "dropPrivileges"
    /\ UNCHANGED <<outcome, engRet, monPc, srv, stopChan, db, calls>>
    /\ UNCHANGED <<cfgVars, normVars>>

\* A premature exit whose return statement is missing: RunFunc falls through
\* to the privilege drop.
OrchPrematureExitFallsThrough ==
    /\ engPc = "sendDone"
    /\ orchPc = "select1"
    /\ engPc' = "done"
    /\ orchPc' = "dropPrivileges"
    /\ UNCHANGED <<outcome, s, engRet, monPc, srv, stopChan, db, calls>>
    /\ UNCHANGED <<cfgVars, normVars>>

\* part_000:102 with part_000:108-110: the premature exit.
OrchPrematureExit ==
    /\ engPc = "sendDone"
    /\ orchPc = "select1"
    /\ outcome' = Append(outcome, engRet)
    /\ engPc' = "done"
    /\ orchPc' = "returned"
    /\ UNCHANGED <<s, engRet, monPc, srv, stopChan, db, calls>>
    /\ UNCHANGED <<cfgVars, normVars>>

\* part_000:68
EngSpawnMonitor ==
    /\ engPc = "spawnMonitor"
    /\ monPc' = "waitForShutdown"
    /\ engPc' = "waitShutdown"
    /\ UNCHANGED <<orchPc, outcome, s, engRet, srv, stopChan, db, calls>>
    /\ UNCHANGED <<cfgVars, normVars>>

\* part_000:69-70: server.WaitForShutdown() returns.
MonWaitForShutdown ==
    /\ monPc = "waitForShutdown"
    /\ srv \in {"shutdown", "stopped"}
    /\ monPc' = "sendShutdown"
    /\ UNCHANGED <<orchPc, outcome, s, engPc, engRet, srv, stopChan, db, calls>>
    /\ UNCHANGED <<cfgVars, normVars>>

\* A monitor that ends without sending on shutdownChannel.
MonitorEndsSilently ==
    /\ monPc = "sendShutdown"
    /\ monPc' = "done"
    /\ UNCHANGED <<orchPc, outcome, s, engPc, engRet, srv, stopChan, db, calls>>
    /\ UNCHANGED <<cfgVars, normVars>>

\* part_000:71 with part_000:76: shutdownChannel <- struct{}{}, <-shutdownChannel.
SignalShutdown ==
    /\ monPc = "sendShutdown"
    /\ engPc = "waitShutdown"
    /\ monPc' = "done"
    /\ engPc' = "rollbackClose"
    /\ UNCHANGED <<orchPc, outcome, s, engRet, srv, stopChan, db, calls>>
    /\ UNCHANGED <<cfgVars, normVars>>

\* part_000:77-78
EngRollbackClose ==
    /\ engPc = "rollbackClose"
    /\ db' = [db EXCEPT !.rollbackCloses = @ + 1]
    /\ engPc' = "return"
    /\ UNCHANGED <<orchPc, outcome, s, engRet, monPc, srv, stopChan, calls>>
    /\ UNCHANGED <<cfgVars, normVars>>

\* part_000:79-80, then the deferred calls of part_000:44 and 33.
EngReturn ==
    /\ engPc = "return"
    /\ engRet' = "nil"
    /\ db' = DeferredClose(db)
    /\ engPc' = "sendDone"
    /\ UNCHANGED <<orchPc, outcome, s, monPc, srv, stopChan, calls>>
    /\ UNCHANGED <<cfgVars, normVars>>

\* part_000:115-118
OrchDropPrivileges ==
    /\ orchPc = "dropPrivileges"
    /\ \/ /\ calls' = Append(calls, Call("DropPrivileges", "nil"))
          /\ orchPc' = "setStarted"
          /\ UNCHANGED outcome
       \/ /\ calls' = Append(calls, Call("DropPrivileges", "privileges error"))
          /\ outcome' = Append(outcome, "privileges error")
          /\ orchPc' = "returned"
    /\ UNCHANGED <<s, engPc, engRet, monPc, srv, stopChan, db>>
    /\ UNCHANGED <<cfgVars, normVars>>

\* part_000:120
OrchSetStarted ==
    /\ orchPc = "setStarted"
    /\ calls' = Append(calls, Call("SetStarted", ""))
    /\ orchPc' = "select2"
    /\ UNCHANGED <<outcome, s, engPc, engRet, monPc, srv, stopChan, db>>
    /\ UNCHANGED <<cfgVars, normVars>>

\* part_000:124: the select takes the manager's stop request.
OrchTakeStop ==
    /\ orchPc = "select2"
    /\ stopChan = "ready"
    /\ stopChan' = "taken"
    /\ orchPc' = "callStop"
    /\ UNCHANGED <<outcome, s, engPc, engRet, monPc, srv, db, calls>>
    /\ UNCHANGED <<cfgVars, normVars>>

\* part_000:125: s.Stop()
OrchCallStop ==
    /\ orchPc = "callStop"
    /\ calls' = Append(calls, Call("Stop", ""))
    /\ srv' = IF srv = "running" THEN "stopped" ELSE srv
    /\ orchPc' = "waitDone"
    /\ UNCHANGED <<outcome, s, engPc, engRet, monPc, stopChan, db>>
    /\ UNCHANGED <<cfgVars, normVars>>

\* A stop path that returns nil right after s.Stop(), without the receive.
OrchReturnsWithoutWaiting ==
    /\ orchPc = "waitDone"
    /\ outcome' = Append(outcome, "nil")
    /\ orchPc' = "returned"
    /\ UNCHANGED <<s, engPc, engRet, monPc, srv, stopChan, db, calls>>
    /\ UNCHANGED <<cfgVars, normVars>>

\* part_000:126 with part_000:102: return <-doneChan
OrchWaitDone ==
    /\ orchPc = "waitDone"
    /\ engPc = "sendDone"
    /\ outcome' = Append(outcome, engRet)
    /\ engPc' = "done"
    /\ orchPc' = "returned"
    /\ UNCHANGED <<s, engRet, monPc, srv, stopChan, db, calls>>
    /\ UNCHANGED <<cfgVars, normVars>>

\* part_000:127-129 with part_000:102: the spontaneous exit.
OrchSpontaneousExit ==
    /\ orchPc = "select2"
    /\ engPc = "sendDone"
    /\ outcome' = Append(outcome, engRet)
    /\ engPc' = "done"
    /\ orchPc' = "returned"
    /\ UNCHANGED <<s, engRet, monPc, srv, stopChan, db, calls>>
    /\ UNCHANGED <<cfgVars, normVars>>

\* The service manager asks the service to stop (once).
ManagerStop ==
    /\ stopChan = "idle"
    /\ orchPc # "idle"
    /\ stopChan' = "ready"
    /\ UNCHANGED <<orchPc, outcome, s, engPc, engRet, monPc, srv, db, calls>>
    /\ UNCHANGED <<cfgVars, normVars>>

\* The running server shuts down on its own.
ServerShutdown ==
    /\ srv = "running"
    /\ srv' = "shutdown"
    /\ UNCHANGED <<orchPc, outcome, s, engPc, engRet, monPc, stopChan, db, calls>>
    /\ UNCHANGED <<cfgVars, normVars>>

OrchNext ==
    \/ OrchStart
    \/ OrchPrematureExit
    \/ OrchDropPrivileges
    \/ OrchSetStarted
    \/ OrchTakeStop
    \/ OrchCallStop
    \/ OrchWaitDone
    \/ OrchSpontaneousExit

EngNext ==
    \/ EngLoadConfig
    \/ EngLoadBlockDB
    \/ EngNewServer
    \/ EngStart
    \/ HandOverServer
    \/ EngSpawnMonitor
    \/ EngRollbackClose
    \/ EngReturn

MonNext == MonWaitForShutdown \/ SignalShutdown

EnvNext == ManagerStop \/ ServerShutdown

Init ==
    /\ argv \in ServiceArgs
    /\ confFile = ServiceFile
    /\ loaded = <<>>
    /\ NoAddresses
    /\ ServiceIdle

Next == OrchNext \/ EngNext \/ MonNext \/ EnvNext

Spec == Init /\ [][Next]_vars

\* Every goroutine that can take a step eventually takes one; the manager
\* and the server's own shutdown are not obliged to happen.
FairSpec ==
    Spec /\ WF_vars(OrchNext) /\ WF_vars(EngNext) /\ WF_vars(MonNext)

(***************************************************************************)
(* NormalizeSpec: normalizeAddresses applied to every bounded list of      *)
(* addresses written with a host character, ":", "[", "]" and the          *)
(* character of the default port.                                          *)
(***************************************************************************)
NormPort == "P"

AddrChars == {"h", ":", "[", "]", NormPort}

Addresses == UNION {[1..n -> AddrChars] : n \in 0..MaxAddrLen}

AddressLists == UNION {[1..n -> Addresses] : n \in 0..MaxAddrs}

NormalizeInit ==
    /\ addrList \in AddressLists
    /\ normalized = <<>>
    /\ argv = NoArgs
    /\ confFile = ServiceFile
    /\ loaded = <<>>
    /\ ServiceIdle

\* config.go:501-514: a call normalizeAddresses(list, port)
Normalize ==
    /\ normalized = <<>>
    /\ normalized' = <<normalizeAddresses(addrList, NormPort)>>
    /\ UNCHANGED <<addrList, cfgVars, svcVars>>

NormalizeNext == Normalize

NormalizeSpec == NormalizeInit /\ [][NormalizeNext]_vars

(***************************************************************************)
(* Properties of the service (checked under Spec and FairSpec).            *)
(***************************************************************************)
Called(name) == \E i \in 1..Len(calls) : calls[i][1] = name

EngineReturned == engPc \in {"sendDone", "done"}

\* C1: once RunFunc holds the ready server handle, it has not returned
\* unless it received the engine task's result from doneChan.
C1_ReturnsOnlyAfterCompletion ==
    (orchPc = "returned" /\ s = "server") => engPc = "done"

\* C2: DropPrivileges and SetStarted are called only with the ready handle
\* received, SetStarted only after a DropPrivileges that returned nil; and
\* when btcdMain returned an error (which it does only before the handover)
\* neither is ever called and RunFunc returns exactly that error.
C2_StartupOrder ==
    /\ (Called("DropPrivileges") \/ Called("SetStarted")) => s = "server"
    /\ \A i \in 1..Len(calls) :
          calls[i][1] = "SetStarted" =>
              \E j \in 1..(i - 1) : calls[j] = Call("DropPrivileges", "nil")
    /\ engRet \notin {"none", "nil"} =>
          /\ s = "nil"
          /\ calls = <<>>
          /\ orchPc = "returned" => outcome = <<engRet>>

C2_Witness ==
    /\ orchPc = "returned"
    /\ engRet = "server error"
    /\ outcome = <<"server error">>
    /\ db.open

\* C3: on the stop path RunFunc calls s.Stop() first, returns nothing until
\* the engine task's send on doneChan happens, and returns exactly the
\* value sent.
C3_StopThenReturnCompletion ==
    [][/\ orchPc = "callStop" /\ orchPc' # "callStop" =>
             /\ orchPc' = "waitDone"
             /\ calls' = Append(calls, Call("Stop", ""))
             /\ outcome' = <<>>
       /\ orchPc = "waitDone" /\ orchPc' # "waitDone" =>
             /\ Called("Stop")
             /\ engPc = "sendDone" /\ engPc' = "done"
             /\ orchPc' = "returned"
             /\ outcome' = <<engRet>>]_vars

C3_Witness ==
    /\ orchPc = "returned"
    /\ stopChan = "taken"
    /\ Called("Stop")
    /\ outcome = <<"nil">>
    /\ engPc = "done"

\* C4: s.Stop() is never called once btcdMain has returned.
C4_NoStopAfterCompletion ==
    [][calls' = Append(calls, Call("Stop", "")) => ~EngineReturned]_vars

\* C5: RunFunc returns at most one outcome, and once it is waiting in the
\* second select with both the stop request and the server's own shutdown
\* having happened, it eventually has returned one outcome with the engine
\* task and the monitor goroutine finished.
BothFired ==
    /\ orchPc \in {"select2", "callStop", "waitDone"}
    /\ stopChan # "idle"
    /\ srv = "shutdown"

AllFinished ==
    /\ orchPc = "returned"
    /\ Len(outcome) = 1
    /\ engPc = "done"
    /\ monPc = "done"

C5_BothSignalsTerminate ==
    /\ [](Len(outcome) <= 1)
    /\ BothFired ~> AllFinished

C5_Witness ==
    /\ AllFinished
    /\ stopChan # "idle"
    /\ srv = "shutdown"
    /\ Called("SetStarted")

(***************************************************************************)
(* Properties of loadConfig (checked under ConfigSpec).                    *)
(***************************************************************************)
Resolved == loaded # <<>> /\ loaded[1].err = "nil"

Effective == loaded[1].cfg[1]

\* Options whose effective value loadConfig does not derive from others.
PlainOptions == {"TestNet3", "RegressionTest", "SimNet", "ConfigFile", "Proxy",
                 "OnionProxy", "NoOnion", "Generate", "DbType", "Profile",
                 "BanDuration", "BlockMaxSize", "RPCUser", "RPCPass"}

FileGives(o) ==
    /\ confFile.status = "ok"
    /\ o \in DOMAIN confFile.opts
    /\ Len(confFile.opts[o]) > 0

ByPrecedence(o) ==
    IF Len(argv[o]) > 0 THEN Last(argv[o])
    ELSE IF FileGives(o) THEN Last(confFile.opts[o])
    ELSE DefaultConfig[o]

\* C6: the effective value of every option is the command line's, else the
\* config file's when the file exists and sets it, else the default.
C6_Precedence ==
    Resolved => \A o \in PlainOptions : Effective[o] = ByPrecedence(o)

\* C7: a resolved configuration on the regression test network has no
\* add-peer address that came from the config file.
C7_NoFilePeersOnRegtest ==
    (Resolved /\ Effective.ActiveNetParams = "reg") =>
        \A i \in 1..Len(confFile.opts.AddPeers) :
            normalizeAddress(confFile.opts.AddPeers[i], DefaultPort("reg"))
                \notin Range(Effective.AddPeers)

\* C8: with more than one of testnet, regtest and simnet set in the merged
\* options loadConfig fails with the multiple-networks error and returns no
\* configuration; otherwise it does not fail with that error, and the
\* configuration it returns has the selected network, or main, as active.
MergedNetFlags ==
    LET merged == MergeSources(argv, confFile)
    IN  {o \in {"TestNet3", "RegressionTest", "SimNet"} : merged[o]}

NetOfFlag(o) ==
    CASE o = "TestNet3" -> "test" [] o = "RegressionTest" -> "reg" [] o = "SimNet" -> "sim"

C8_NetworkSelection ==
    (loaded # <<>> /\ loaded[1].err # "config file parse error") =>
        IF Cardinality(MergedNetFlags) > 1
        THEN loaded[1] = Failure("multiple networks")
        ELSE /\ loaded[1].err # "multiple networks"
             /\ Resolved =>
                   /\ Effective.ActiveNetParams \in Nets
                   /\ \A o \in MergedNetFlags : Effective.ActiveNetParams = NetOfFlag(o)
                   /\ MergedNetFlags = {} => Effective.ActiveNetParams = "main"

C8_Witness ==
    /\ loaded # <<>>
    /\ loaded[1].err = "multiple networks"
    /\ Len(argv.SimNet) > 0
    /\ Len(argv.TestNet3) = 0
    /\ Len(confFile.opts.RegressionTest) > 0

\* C9: with generation enabled and no mining address loadConfig fails,
\* whatever the getwork keys are; with generation enabled, a mining address
\* of the active network and nothing else given, it succeeds.
C9_GenerateNeedsMiningAddress ==
    /\ (loaded # <<>> /\ Len(argv.Generate) > 0 /\ Len(argv.MiningAddrs) = 0) =>
          loaded[1].err # "nil"
    /\ (loaded # <<>> /\ Given(argv) = {"Generate", "MiningAddrs"}
            /\ argv.MiningAddrs = <<"addrMain">> /\ confFile.status = "missing") =>
          Resolved

\* C10: the strategies bound for every combination of proxy, onion proxy
\* and --noonion.
C10_Strategies ==
    Resolved =>
        LET c == Effective
        IN  /\ c.Dial = IF c.Proxy = "" THEN NetDial
                        ELSE ProxyDial(c.Proxy, c.ProxyUser, c.ProxyPass)
            /\ c.Lookup = IF c.Proxy = "" \/ c.NoOnion THEN NetLookupIP
                          ELSE TorLookup(c.Proxy)
            /\ c.Oniondial =
                  IF c.NoOnion THEN TorDisabled
                  ELSE IF c.OnionProxy # ""
                       THEN ProxyDial(c.OnionProxy, c.OnionProxyUser, c.OnionProxyPass)
                       ELSE c.Dial
            /\ c.Onionlookup =
                  IF c.NoOnion THEN TorDisabled
                  ELSE IF c.OnionProxy # "" THEN TorLookup(c.OnionProxy)
                       ELSE c.Lookup

C10_Witness ==
    /\ Resolved
    /\ Effective.Proxy = "proxyF"
    /\ Effective.OnionProxy = "onionC"
    /\ Effective.NoOnion
    /\ Effective.Oniondial = TorDisabled
    /\ Effective.Lookup = NetLookupIP

\* C12: once btcdMain has returned with the block database opened, the
\* storage handle has been closed exactly once, by Close or by RollbackClose,
\* never by both and never twice.
C12_ClosedExactlyOnce ==
    (db.open /\ engPc \in {"sendDone", "done"}) =>
        db.closes + db.rollbackCloses = 1

(***************************************************************************)
(* Properties of normalizeAddresses (checked under NormalizeSpec).         *)
(***************************************************************************)
\* The entry names a port: text follows its last colon.
HasExplicitPort(entry) ==
    LET i == LastIndexOf(entry, ":") IN i > 0 /\ i < Len(entry)

\* The entries of list that no earlier entry equals, in their order.
RECURSIVE FirstOccurrences(_)
FirstOccurrences(list) ==
    IF list = <<>> THEN <<>>
    ELSE LET front == SubSeq(list, 1, Len(list) - 1)
         IN  IF Last(list) \in Range(front) THEN FirstOccurrences(front)
             ELSE Append(FirstOccurrences(front), Last(list))

Returned == normalized[1]

\* C11 (order and duplicates): the returned list holds the port-completed
\* entries in first-occurrence order, no two of them equal.
C11_FirstOccurrenceOrder ==
    normalized # <<>> =>
        /\ Returned = FirstOccurrences(
               [i \in 1..Len(addrList) |-> normalizeAddress(addrList[i], NormPort)])
        /\ \A i, j \in 1..Len(Returned) : Returned[i] = Returned[j] => i = j

\* C11: every returned entry has an explicit port, no two returned entries
\* are equal, and the entries keep their first-occurrence order.
C11_NormalizedList ==
    /\ C11_FirstOccurrenceOrder
    /\ normalized # <<>> => \A i \in 1..Len(Returned) : HasExplicitPort(Returned[i])

====
